---- MODULE Spec2Model ----
(***************************************************************************)
(* Model of alaska/predict_from_model.py: decode_batch_output,             *)
(* eval_bs_batch and eval_bs.                                              *)
(*                                                                         *)
(* Python strings are sequences of one-character strings, so that          *)
(* format_tokens (join) and str.split() are computed and not assumed.      *)
(* Python list positions are 0-based; TLA+ sequences are 1-based, so the   *)
(* element at Python position p is the element p + 1 of the sequence.      *)
(***************************************************************************)
EXTENDS Integers, Sequences, FiniteSets, TLC

\* ------------------------------------------------------------------ bounds
\* longest index sequence of one document / one hypothesis
MaxLen == 2
\* most documents handed to decode_batch_output / hypotheses of a beam search
MaxDocs == 2
\* most examples in a batch handed to eval_bs_batch
MaxBatch == 2
\* most examples of the test set
MaxExamples == 2

\* ----------------------------------------------------------------- strings
SP == " "
W_PAD == <<"<", "P", "A", "D", ">">>
W_SOS == <<"<", "S", "O", "S", ">">>
W_EOS == <<"<", "E", "O", "S", ">">>
W_UNK == <<"<", "U", "N", "K", ">">>
W_GAMMA == <<"G", "A", "M", "M", "A">>
W_RAY == <<"R", "A", "Y">>
W_DEPTH == <<"D", "E", "P", "T", "H">>
W_FT == <<"F", "T">>

\* the unknown-token string of oov_dict.index2word.get(..., "<UNK>")
UNK_STR == W_UNK

\* ------------------------------------------------------------- vocabulary
\* the base vocabulary: vocab[idx] is vocab[idx + 1] here
vocab == <<W_PAD, W_SOS, W_EOS, W_UNK, W_GAMMA, W_RAY>>
\* vocab.EOS
EOS == 2
\* len(vocab)
VocabLen == Len(vocab)
\* vocab[word_idx]
VocabAt(word_idx) == vocab[word_idx + 1]

\* dict.get(key, default)
DictGet(d, key, default) == IF key \in DOMAIN d THEN d[key] ELSE default

Restrict(f, S) == [x \in S |-> f[x]]

\* ---------------------------------------------------- decode_batch_output
\* the dictionary is consulted first, the vocabulary only when the key is absent
LookupWordOOVFirst(i, word_idx, oov) ==
    IF <<i, word_idx>> \in DOMAIN oov
    THEN oov[<<i, word_idx>>]
    ELSE IF word_idx >= VocabLen THEN UNK_STR ELSE VocabAt(word_idx)

\* lines 51-54: the word of index word_idx of document i
LookupWord(i, word_idx, oov) ==
    IF word_idx >= VocabLen
    THEN DictGet(oov, <<i, word_idx>>, UNK_STR)
    ELSE VocabAt(word_idx)

\* the loop breaks on the terminator before appending it
RECURSIVE DecodeDocBreakFirst(_, _, _, _)
DecodeDocBreakFirst(i, doc, oov, p) ==
    IF p > Len(doc) THEN <<>>
    ELSE IF doc[p] = EOS THEN <<>>
    ELSE <<LookupWord(i, doc[p], oov)>> \o DecodeDocBreakFirst(i, doc, oov, p + 1)

\* lines 49-57: the inner loop from position p (1-based) of doc on
RECURSIVE DecodeDoc(_, _, _, _)
DecodeDoc(i, doc, oov, p) ==
    IF p > Len(doc) THEN <<>>
    ELSE IF doc[p] = EOS THEN <<LookupWord(i, doc[p], oov)>>
    ELSE <<LookupWord(i, doc[p], oov)>> \o DecodeDoc(i, doc, oov, p + 1)

\* lines 45, 48-59: i enumerates the documents from 0
DecodeList(tokens, oov) ==
    [d \in 1..Len(tokens) |-> DecodeDoc(d - 1, tokens[d], oov, 1)]

\* line 47: transpose(0, 1).tolist() of a grid of time steps by examples
Transpose(grid) ==
    [d \in 1..Len(grid[1]) |-> [t \in 1..Len(grid) |-> grid[t][d]]]

\* an argument of decode_batch_output: a list of documents or a tensor
AsList(data) == [is_list |-> TRUE, data |-> data]
AsTensor(data) == [is_list |-> FALSE, data |-> data]

\* lines 41-59
decode_batch_output(tokens, oov) ==
    DecodeList(IF tokens.is_list THEN tokens.data ELSE Transpose(tokens.data), oov)

\* ------------------------------------------------------------ input sets
SeqsUpTo(S, n) == UNION {[1..k -> S] : k \in 0..n}

\* token indices: the terminator, a base word, the first extended index
TokenIdxs == {EOS, 4, VocabLen}
Docs == SeqsUpTo(TokenIdxs, MaxLen)
DocLists == UNION {[1..k -> Docs] : k \in 1..MaxDocs}
\* tensors: 1..MaxLen time steps of 1..MaxDocs examples each
Tensors == UNION {[1..t -> [1..b -> TokenIdxs]] : t \in 1..MaxLen, b \in 1..MaxDocs}
DecodeArgs(is_list) == IF is_list THEN DocLists ELSE Tensors

\* OOV entries by (document, index); one key is a base-vocabulary index
OOVFull == (<<0, 4>> :> W_FT) @@ (<<0, VocabLen>> :> W_FT) @@ (<<1, VocabLen>> :> W_DEPTH)
OOVDicts == {Restrict(OOVFull, K) : K \in SUBSET (DOMAIN OOVFull)}

\* ------------------------------------------------- format_tokens, split
\* format_tokens(tokens): the token strings joined into one display string
RECURSIVE JoinFrom(_, _)
JoinFrom(tokens, p) ==
    IF p > Len(tokens) THEN <<>>
    ELSE IF p = Len(tokens) THEN tokens[p]
    ELSE tokens[p] \o <<SP>> \o JoinFrom(tokens, p + 1)

format_tokens(tokens) == JoinFrom(tokens, 1)

\* str.split(): the maximal runs of non-whitespace characters of s, in order
RECURSIVE SplitFrom(_, _, _)
SplitFrom(s, p, cur) ==
    IF p > Len(s) THEN (IF cur = <<>> THEN <<>> ELSE <<cur>>)
    ELSE IF s[p] = SP
         THEN (IF cur = <<>> THEN <<>> ELSE <<cur>>) \o SplitFrom(s, p + 1, <<>>)
         ELSE SplitFrom(s, p + 1, Append(cur, s[p]))

Split(s) == SplitFrom(s, 1, <<>>)

\* ----------------------------------------------------------- eval_bs_batch
\* avg_log_prob is held in hundredths: -1 is -0.01, -100 is -1.0
AvgLogProbs == {0, -1, -100}

\* the decimal logarithm of a power of ten
RECURSIVE ILog10(_)
ILog10(x) == IF x <= 1 THEN 0 ELSE 1 + ILog10(x \div 10)

\* math.log(x, 10) for x in hundredths
MathLog10(x) == ILog10(x) - 2

\* math.log raises ValueError outside its domain
MathDomainError(x) == x <= 0

\* the value None, which is no string
None == <<"None">>

\* what a call of eval_bs_batch leaves: the exception raised ("none" when it
\* returned), whether beam_search was invoked, decoded_batch, and the
\* returned tuple (predicted, mnem, probability), <<>> when nothing returned
Raised(e, called, dec) == [exc |-> e, beam_called |-> called, decoded |-> dec, ret |-> <<>>]
Returned(dec, r) == [exc |-> "none", beam_called |-> TRUE, decoded |-> dec, ret |-> r]
NoResult == [exc |-> "none", beam_called |-> FALSE, decoded |-> <<>>, ret |-> <<>>]

\* the assertion lets an empty batch through
AssertAtMostOne(b) == Len(b.examples) <= 1

\* line 91
AssertOneExample(b) == Len(b.examples) = 1

\* lines 103-107: the token lists handed to decode_batch_output
ToDecode(hyps, bo) ==
    IF bo THEN <<hyps[1].tokens>> ELSE [h \in 1..Len(hyps) |-> hyps[h].tokens]

\* lines 91-117, hyps being what model.beam_search returns
eval_bs_batch(b, hyps, bo, det) ==
    IF ~AssertOneExample(b) THEN Raised("AssertionError", FALSE, <<>>)
    ELSE IF bo /\ MathDomainError(-hyps[1].avg_log_prob)
    THEN Raised("ValueError", TRUE, <<>>)
    ELSE LET dec == decode_batch_output(AsList(ToDecode(hyps, bo)), b.oov_dict)
             predict_lst == Split(format_tokens(dec[1]))
         IN IF det /\ Len(predict_lst) < 2 THEN Raised("IndexError", TRUE, dec)
            ELSE IF det /\ Len(b.examples) = 0 THEN Raised("IndexError", TRUE, dec)
            ELSE IF det /\ Len(Split(format_tokens(b.examples[1].src))) = 0
            THEN Raised("IndexError", TRUE, dec)
            \* line 117 reads mnem, bound only when details
            ELSE IF ~det THEN Raised("UnboundLocalError", TRUE, dec)
            \* line 117 reads probability, bound only when best_only
            ELSE IF ~bo THEN Raised("UnboundLocalError", TRUE, dec)
            ELSE LET src_lst == Split(format_tokens(b.examples[1].src))
                     predicted == predict_lst[1] \o <<SP>> \o predict_lst[2]
                     mnem == src_lst[Len(src_lst)]
                     probability == MathLog10(-hyps[1].avg_log_prob)
                 IN Returned(dec, <<predicted, mnem, probability>>)

\* hypothesis token lists: ended by the terminator, or cut at the longest length
HypTokens ==
    {s \in Docs : /\ Len(s) >= 1
                  /\ \A p \in 1..(Len(s) - 1) : s[p] # EOS
                  /\ (s[Len(s)] # EOS => Len(s) = MaxLen)}
Hypotheses == [tokens : HypTokens, avg_log_prob : AvgLogProbs]
\* ranked best first
HypLists ==
    {hl \in UNION {[1..k -> Hypotheses] : k \in 1..MaxDocs} :
        \A h \in 1..(Len(hl) - 1) : hl[h].avg_log_prob >= hl[h + 1].avg_log_prob}

\* source token lists; the last token is the mnemonic
Srcs == {<<W_DEPTH, W_FT>>, <<W_FT, W_DEPTH>>}
\* the OOV dictionary of a batch: extended indices of its examples
BatchOOVDicts == {Restrict(OOVFull, K) : K \in SUBSET {<<0, VocabLen>>}}
Batches ==
    [examples : UNION {[1..k -> [src : Srcs]] : k \in 0..MaxBatch},
     oov_dict : BatchOOVDicts]

\* ------------------------------------------------------------------ eval_bs
\* int(x / den): Python's int() of a float truncates toward zero
IntTrunc(x, den) == IF x >= 0 THEN x \div den ELSE -((-x) \div den)

\* line 130, test_sample_ratio being the fraction ratio[1] / ratio[2]
NSamples(ratio, n_pairs) == IntTrunc(ratio[1] * n_pairs, ratio[2])

\* the loop runs once more than n_samples
LoopFromZero(done, n) == done <= n

\* line 136: range(1, n_samples + 1) has an iteration left after `done` of them
LoopContinues(done, n) == done < n

\* line 132: both options are truthy
SavingEnabled(p) == p.test_save_results /\ p.model_path_prefix # ""

EmptyMap == [m \in {} |-> m]

\* the mapping keeps the first value stored under a key
StoreFirst(map, key, value) == IF key \in DOMAIN map THEN map ELSE (key :> value) @@ map

\* lines 150, 151: map[key] = value
Store(map, key, value) == (key :> value) @@ map

\* a failed example is skipped and the loop goes on
SkipFailedExample == "loop"

\* lines 138-148: nothing catches what eval_bs_batch raises; eval_bs ends there
PropagateFailure == "aborted"

\* if predicted: None and the empty string are falsy
Truthy(predicted) == predicted # None /\ predicted # <<>>

\* test_sample_ratio as numerator and denominator
Ratios == {<<0 - 1, 2>>, <<0, 1>>, <<1, 2>>, <<1, 1>>}
ParamsSet ==
    [test_save_results : BOOLEAN,
     model_path_prefix : {"", "checkpoints/"},
     test_sample_ratio : Ratios]
\* test_set.pairs: each example with the OOV dictionary its batch gets
Examples ==
    {[src |-> <<W_DEPTH, W_FT>>, oov_dict |-> Restrict(OOVFull, {<<0, VocabLen>>})],
     [src |-> <<W_FT, W_DEPTH>>, oov_dict |-> EmptyMap]}
TestSets == UNION {[1..k -> Examples] : k \in 0..MaxExamples}

VARIABLES pc, decoded_tokens, oov_dict, decoded_batch,
          batch, best_only, details, hypotheses, res, beam_calls,
          params, test_set, n_samples, result_file, output, prob_output,
          drawn, processed, returned

vars == <<pc, decoded_tokens, oov_dict, decoded_batch,
          batch, best_only, details, hypotheses, res, beam_calls,
          params, test_set, n_samples, result_file, output, prob_output,
          drawn, processed, returned>>

batch_vars == <<batch, best_only, details, hypotheses, res, beam_calls>>
decode_vars == <<decoded_tokens, oov_dict, decoded_batch>>
bs_vars == <<params, test_set, n_samples, result_file, output, prob_output,
             drawn, processed, returned>>

NoBatch == [examples |-> <<>>, oov_dict |-> <<>>]
NoParams == [test_save_results |-> FALSE, model_path_prefix |-> "",
             test_sample_ratio |-> <<0, 1>>]

\* the eval_bs variables where eval_bs is not running
BsIdle ==
    /\ params = NoParams
    /\ test_set = <<>>
    /\ n_samples = 0
    /\ result_file = "unbound"
    /\ output = EmptyMap
    /\ prob_output = EmptyMap
    /\ drawn = 0
    /\ processed = <<>>
    /\ returned = <<>>

\* ------------------------------------------------ decode_batch_output call
InitDecode ==
    /\ pc = "decode"
    /\ \E is_list \in BOOLEAN : \E data \in DecodeArgs(is_list) :
        decoded_tokens = [is_list |-> is_list, data |-> data]
    /\ oov_dict \in OOVDicts
    /\ decoded_batch = <<>>
    /\ batch = NoBatch
    /\ best_only = TRUE
    /\ details = TRUE
    /\ hypotheses = <<>>
    /\ res = NoResult
    /\ beam_calls = 0
    /\ BsIdle

DecodeBatchOutput ==
    /\ pc = "decode"
    /\ decoded_batch' = decode_batch_output(decoded_tokens, oov_dict)
    /\ pc' = "decoded"
    /\ UNCHANGED <<decoded_tokens, oov_dict>>
    /\ UNCHANGED batch_vars
    /\ UNCHANGED bs_vars

NextDecode == DecodeBatchOutput

SpecDecode == InitDecode /\ [][NextDecode]_vars

\* the index sequence of example d (1-based) of the argument, read from the
\* argument itself: a document of the list, a column of the tensor
NumExamples ==
    IF decoded_tokens.is_list THEN Len(decoded_tokens.data)
    ELSE Len(decoded_tokens.data[1])
ExampleSeq(d) ==
    IF decoded_tokens.is_list THEN decoded_tokens.data[d]
    ELSE [t \in 1..Len(decoded_tokens.data) |-> decoded_tokens.data[t][d]]

\* position (1-based) of the first EOS of doc, 0 when there is none
FirstEOS(doc) ==
    IF \E p \in 1..Len(doc) : doc[p] = EOS
    THEN CHOOSE p \in 1..Len(doc) : doc[p] = EOS /\ \A q \in 1..(p - 1) : doc[q] # EOS
    ELSE 0

\* C1: a document whose first end-of-sequence index is at position k decodes
\* to exactly k + 1 strings, those of positions 0..k in order, the last the
\* end-of-sequence token; a document without it is decoded in full.
C1_TruncateAtEOS ==
    pc = "decoded" =>
        /\ Len(decoded_batch) = NumExamples
        /\ \A d \in 1..NumExamples :
            LET doc == ExampleSeq(d)
                out == decoded_batch[d]
                k1 == FirstEOS(doc)
                n == IF k1 = 0 THEN Len(doc) ELSE k1
            IN /\ Len(out) = n
               /\ \A p \in 1..n : out[p] = LookupWord(d - 1, doc[p], oov_dict)
               /\ k1 # 0 => out[n] = W_EOS

\* a document with tokens after its first terminator has been decoded
C1_Witness ==
    /\ pc = "decoded"
    /\ \E d \in 1..NumExamples :
        /\ FirstEOS(ExampleSeq(d)) = 1
        /\ Len(ExampleSeq(d)) = 2
        /\ decoded_batch[d] = <<W_EOS>>

\* C2: every decoded word is the base vocabulary token when idx < len(vocab),
\* whatever the OOV dictionary holds; otherwise the dictionary's word for
\* (i, idx) when present; otherwise "<UNK>"; the call returns.
C2_Resolution ==
    pc = "decoded" =>
        \A d \in 1..Len(decoded_batch) : \A p \in 1..Len(decoded_batch[d]) :
            LET idx == ExampleSeq(d)[p]
                key == <<d - 1, idx>>
                word == decoded_batch[d][p]
            IN /\ idx < VocabLen => word = vocab[idx + 1]
               /\ (idx >= VocabLen /\ key \in DOMAIN oov_dict) => word = oov_dict[key]
               /\ (idx >= VocabLen /\ key \notin DOMAIN oov_dict) => word = W_UNK

\* a base index whose key is in the dictionary, an extended index resolved
\* through the dictionary and one that fell back to "<UNK>" were all decoded
C2_Witness ==
    /\ pc = "decoded"
    /\ decoded_tokens = AsList(<<(<<4, VocabLen>>), (<<VocabLen>>)>>)
    /\ DOMAIN oov_dict = {<<0, 4>>, <<0, VocabLen>>}
    /\ decoded_batch = <<(<<W_GAMMA, W_FT>>), (<<W_UNK>>)>>

\* ------------------------------------------------------ eval_bs_batch call
InitBatch ==
    /\ pc = "batch"
    /\ batch \in Batches
    /\ best_only \in BOOLEAN
    /\ details \in BOOLEAN
    /\ hypotheses = <<>>
    /\ res = NoResult
    /\ beam_calls = 0
    /\ decoded_tokens = AsList(<<>>)
    /\ oov_dict = <<>>
    /\ decoded_batch = <<>>
    /\ BsIdle

\* a direct call of eval_bs_batch; beam_search is consulted only past line 91
EvalBsBatch ==
    /\ pc = "batch"
    /\ \E hyps \in HypLists : \E r \in {eval_bs_batch(batch, hyps, best_only, details)} :
           /\ res' = r
           /\ hypotheses' = IF r.beam_called THEN hyps ELSE <<>>
           /\ beam_calls' = IF r.beam_called THEN beam_calls + 1 ELSE beam_calls
    /\ pc' = "batch_done"
    /\ UNCHANGED <<batch, best_only, details>>
    /\ UNCHANGED decode_vars
    /\ UNCHANGED bs_vars

NextBatch == EvalBsBatch

SpecBatch == InitBatch /\ [][NextBatch]_vars

\* C3: a batch of 0 or of 2 and more examples makes eval_bs_batch fail with
\* the batch-size assertion before beam_search is invoked, and nothing is
\* returned.
C3_InvalidBatchSize ==
    (pc = "batch_done" /\ Len(batch.examples) # 1) =>
        /\ res.exc = "AssertionError"
        /\ beam_calls = 0
        /\ ~res.beam_called
        /\ res.ret = <<>>

\* the call was made with an empty batch and failed
C3_Witness ==
    /\ pc = "batch_done"
    /\ Len(batch.examples) = 0
    /\ res.exc = "AssertionError"

\* C4: with details and best_only, whatever the top hypothesis (its score
\* being defined), the call returns the first two whitespace-separated
\* tokens of the decoded string joined by one space, and the last token of
\* the detokenized source.
C4_LabelAndMnemonic ==
    (/\ pc = "batch_done"
     /\ Len(batch.examples) = 1
     /\ details /\ best_only
     /\ hypotheses[1].avg_log_prob < 0) =>
        /\ res.exc = "none"
        /\ LET toks == Split(format_tokens(res.decoded[1]))
               src == batch.examples[1].src
           IN /\ Len(toks) >= 2
              /\ res.ret[1] = toks[1] \o <<SP>> \o toks[2]
              /\ res.ret[2] = src[Len(src)]

\* C7: with details false the call returns a record whose label is None,
\* with the mnemonic identifier and the score.
C7_NoDetailsReturnsNone ==
    (/\ pc = "batch_done"
     /\ Len(batch.examples) = 1
     /\ ~details /\ best_only
     /\ hypotheses[1].avg_log_prob < 0) =>
        /\ res.exc = "none"
        /\ Len(res.ret) = 3
        /\ res.ret[1] = None

\* C9: with best_only false every hypothesis is decoded for the single
\* example of the batch: an extended index resolves through key (0, idx)
\* whatever the rank of the hypothesis holding it.
C9_RankIndependentOOV ==
    (/\ pc = "batch_done"
     /\ Len(batch.examples) = 1
     /\ ~best_only) =>
        /\ Len(res.decoded) = Len(hypotheses)
        /\ \A h \in 1..Len(res.decoded) : \A p \in 1..Len(res.decoded[h]) :
            LET idx == hypotheses[h].tokens[p]
            IN idx >= VocabLen =>
                res.decoded[h][p] = DictGet(batch.oov_dict, <<0, idx>>, UNK_STR)

\* ------------------------------------------------------------ eval_bs call
Init ==
    /\ pc = "start"
    /\ params \in ParamsSet
    /\ test_set \in TestSets
    /\ n_samples = 0
    /\ result_file = "unbound"
    /\ output = EmptyMap
    /\ prob_output = EmptyMap
    /\ drawn = 0
    /\ processed = <<>>
    /\ returned = <<>>
    /\ batch = NoBatch
    /\ best_only = TRUE
    /\ details = TRUE
    /\ hypotheses = <<>>
    /\ res = NoResult
    /\ beam_calls = 0
    /\ decoded_tokens = AsList(<<>>)
    /\ oov_dict = <<>>
    /\ decoded_batch = <<>>

\* lines 129-135
EvalBsStart ==
    /\ pc = "start"
    /\ n_samples' = NSamples(params.test_sample_ratio, Len(test_set))
    /\ result_file' = IF SavingEnabled(params) THEN "tarfile" ELSE "unbound"
    /\ output' = EmptyMap
    /\ prob_output' = EmptyMap
    /\ pc' = "loop"
    /\ UNCHANGED <<params, test_set, drawn, processed, returned>>
    /\ UNCHANGED batch_vars
    /\ UNCHANGED decode_vars

\* lines 136, 137: the generator yields a batch of one example of the test set
EvalBsDraw ==
    /\ pc = "loop"
    /\ LoopContinues(drawn, n_samples)
    /\ \E e \in 1..Len(test_set) :
        batch' = [examples |-> <<[src |-> test_set[e].src]>>,
                  oov_dict |-> test_set[e].oov_dict]
    /\ drawn' = drawn + 1
    /\ pc' = "evaluate"
    /\ UNCHANGED <<params, test_set, n_samples, result_file, output, prob_output,
                   processed, returned>>
    /\ UNCHANGED <<best_only, details, hypotheses, res, beam_calls>>
    /\ UNCHANGED decode_vars

\* what eval_bs sees of a call: the exception or the returned tuple
Outcome(r) == [r EXCEPT !.decoded = <<>>]

\* lines 138-151: the call of eval_bs_batch (best_only left at its default)
\* and the recording of its result. Only hypotheses[0] is read when
\* best_only, so beam_search is given its top hypothesis alone; the locals
\* of a call that returned are gone, those of a call that raised are kept.
EvalBsEvaluate ==
    /\ pc = "evaluate"
    /\ IF result_file = "unbound"
       THEN \* line 147 reads result_file before the call is made
            /\ res' = Raised("UnboundLocalError", FALSE, <<>>)
            /\ pc' = PropagateFailure
            /\ UNCHANGED <<hypotheses, beam_calls, output, prob_output, processed>>
       ELSE \E h \in Hypotheses : \E r \in {eval_bs_batch(batch, <<h>>, TRUE, TRUE)} :
               /\ res' = Outcome(r)
               /\ hypotheses' = IF r.exc # "none" THEN <<h>> ELSE <<>>
               /\ beam_calls' = IF r.beam_called THEN beam_calls + 1 ELSE beam_calls
               /\ IF r.exc # "none"
                  THEN /\ pc' = PropagateFailure
                       /\ UNCHANGED <<output, prob_output, processed>>
                  ELSE /\ pc' = "loop"
                       /\ processed' = Append(processed,
                              [predicted |-> r.ret[1], mnem |-> r.ret[2], prob |-> r.ret[3]])
                       /\ IF Truthy(r.ret[1])
                          THEN /\ output' = Store(output, r.ret[2], r.ret[1])
                               /\ prob_output' = Store(prob_output, r.ret[2], r.ret[3])
                          ELSE UNCHANGED <<output, prob_output>>
    /\ UNCHANGED <<params, test_set, n_samples, result_file, drawn, returned>>
    /\ UNCHANGED <<batch, best_only, details>>
    /\ UNCHANGED decode_vars

\* line 152
EvalBsReturn ==
    /\ pc = "loop"
    /\ ~LoopContinues(drawn, n_samples)
    /\ returned' = <<output, prob_output>>
    /\ pc' = "returned"
    /\ UNCHANGED <<params, test_set, n_samples, result_file, output, prob_output,
                   drawn, processed>>
    /\ UNCHANGED batch_vars
    /\ UNCHANGED decode_vars

Next == EvalBsStart \/ EvalBsDraw \/ EvalBsEvaluate \/ EvalBsReturn

Spec == Init /\ [][Next]_vars

Running == pc \in {"loop", "evaluate", "returned", "aborted"}

\* the position in processed of the last example whose identifier is m
LastOf(m) ==
    CHOOSE j \in 1..Len(processed) :
        /\ processed[j].mnem = m
        /\ \A k \in (j + 1)..Len(processed) : processed[k].mnem # m

\* C5: both mappings have the same keys, and under every identifier m they
\* hold the label and the score of the last processed example whose
\* identifier is m; the returned mappings are these.
C5_LastWriteWins ==
    Running =>
        /\ DOMAIN output = DOMAIN prob_output
        /\ \A m \in DOMAIN output :
            /\ \E j \in 1..Len(processed) : processed[j].mnem = m
            /\ output[m] = processed[LastOf(m)].predicted
            /\ prob_output[m] = processed[LastOf(m)].prob
        /\ pc = "returned" => returned = <<output, prob_output>>

\* two examples with the same identifier and different results were processed
C5_Witness ==
    /\ pc = "returned"
    /\ Len(processed) = 2
    /\ processed[1].mnem = processed[2].mnem
    /\ processed[1].predicted # processed[2].predicted
    /\ processed[1].prob # processed[2].prob
    /\ returned[1][processed[2].mnem] = processed[2].predicted
    /\ returned[2][processed[2].mnem] = processed[2].prob

\* C6: when floor(test_sample_ratio * number of examples) <= 0, eval_bs
\* draws nothing, never calls the model, raises nothing and returns two
\* empty mappings.
C6_NoSamples ==
    (/\ Running
     /\ (params.test_sample_ratio[1] * Len(test_set)) \div params.test_sample_ratio[2] <= 0) =>
        /\ drawn = 0
        /\ beam_calls = 0
        /\ res.exc = "none"
        /\ pc \in {"loop", "returned"}
        /\ pc = "returned" => returned = <<EmptyMap, EmptyMap>>

\* a ratio of 0 over a test set with examples returned two empty mappings
C6_Witness ==
    /\ pc = "returned"
    /\ params.test_sample_ratio = <<0, 1>>
    /\ Len(test_set) >= 1
    /\ returned = <<EmptyMap, EmptyMap>>
    /\ beam_calls = 0

\* C8: whatever test_save_results and model_path_prefix are, with
\* 1 <= n <= number of examples eval_bs draws exactly n examples, evaluates
\* each, and returns the two mappings.
C8_DrawsAndReturns ==
    (/\ pc \in {"returned", "aborted"}
     /\ 1 <= n_samples
     /\ n_samples <= Len(test_set)) =>
        /\ pc = "returned"
        /\ drawn = n_samples
        /\ Len(processed) = n_samples
        /\ returned = <<output, prob_output>>

\* C10: a failure of the Batch Evaluator (avg_log_prob = 0 makes the score
\* transform raise a math domain error) ends the pass there: nothing is
\* returned, and afterwards no example is drawn.
C10_FailureAborts ==
    [][/\ res'.exc # "none" => (pc' = "aborted" /\ returned' = <<>>)
       /\ (hypotheses' # <<>> /\ hypotheses'[1].avg_log_prob = 0) => res'.exc = "ValueError"
       /\ res.exc # "none" => (drawn' = drawn /\ beam_calls' = beam_calls)]_vars

\* the score transform failed on an example while more were to be drawn
C10_Witness ==
    /\ pc = "aborted"
    /\ res.exc = "ValueError"
    /\ hypotheses[1].avg_log_prob = 0
    /\ drawn < n_samples
====
